---- MODULE Spec2Model ----
(***************************************************************************)
(* Character-level RNN name generator (char_rnn_generation_tutorial.ipynb). *)
(* Characters are Unicode code points; a string is a sequence of code      *)
(* points; a tensor of shape 1 x n is <<v>> with v a function on 0..n-1.   *)
(***************************************************************************)
EXTENDS Integers, Sequences, FiniteSets, TLC

VARIABLES
    dir,              \* data/names: file name <<stem, ext>> -> text of the file
    files,            \* findFiles('data/names/*.txt'), the list being iterated
    all_categories,   \* list of category names, in glob order
    category_lines,   \* dictionary category -> list of lines
    n_categories,     \* len(all_categories), set after the loading loop
    pc,               \* position of the running cell / function
    fn,               \* the function called last ("none" before any call)
    arg,              \* its argument
    result,           \* its return value
    params,           \* rnn.parameters(): the value of each parameter
    category_tensor,  \* local of train / sample
    input,            \* local of sample: the current input tensor
    hidden,           \* local of train / sample
    output,           \* local of train / sample: the last network output
    output_name,      \* local of sample
    i,                \* loop index of train / sample
    calls,            \* history: the calls of rnn made by the running function
    input_line_tensor,  \* argument of train
    target_line_tensor, \* argument of train
    loss,             \* local of train: the running sum of the step losses
    grads,            \* p.grad of each parameter
    p_i,              \* position of "for p in rnn.parameters()"
    events,           \* history: what the running call of train did, in order
    iter,             \* number of calls of train started
    all_losses,       \* the averages kept for plotting
    total_loss,       \* sum of the losses since the last average
    printed,          \* the progress lines printed by the training loop
    losses            \* history: the loss train returned in each iteration

dataVars == <<dir, files, all_categories, category_lines, n_categories>>
fnVars == <<fn, arg, result>>
sampleVars == <<input, output_name>>
runVars == <<params, category_tensor, hidden, output, i, calls>>
trainVars == <<input_line_tensor, target_line_tensor, loss, grads, p_i, events, iter>>
loopVars == <<all_losses, total_loss, printed, losses>>
vars == <<dataVars, pc, fnVars, sampleVars, runVars, trainVars, loopVars>>

----------------------------------------------------------------------------
\* Bounds of the checked instances.
MaxLineLen == 3
MaxStrLen == 3
MaxFreeSteps == 2
MaxIters == 2
LoopIters == 6        \* iterations of the training loop
PrintPeriod == 3      \* iterations per progress line
PlotPeriod == 2       \* iterations per plotted average

----------------------------------------------------------------------------
\* Python helpers.

\* range(n) .. sequences up to a length
SeqsUpTo(S, n) == UNION {[1..k -> S] : k \in 0..n}

\* Python's negative indexing: index -1 is the last element.
PyIndex(idx, n) == IF idx < 0 THEN idx + n ELSE idx

\* torch.zeros(1, n)
Zeros(n) == <<[j \in 0..(n - 1) |-> 0]>>

\* tensor[0][idx] = 1
SetOne(tensor, idx, n) ==
    <<[j \in 0..(n - 1) |-> IF j = PyIndex(idx, n) THEN 1 ELSE tensor[1][j]]>>

----------------------------------------------------------------------------
\* all_letters = string.ascii_letters + " .,;'-"
ascii_lowercase == [k \in 1..26 |-> 96 + k]
ascii_uppercase == [k \in 1..26 |-> 64 + k]
ascii_letters == ascii_lowercase \o ascii_uppercase
all_letters == ascii_letters \o <<32, 46, 44, 59, 39, 45>>

\* n_letters = len(all_letters) + 1   (plus EOS marker)
n_letters == Len(all_letters) + 1

\* c in all_letters
InAllLetters(c) == \E k \in 1..Len(all_letters) : all_letters[k] = c

\* all_letters.find(letter): the 0-based index of the first occurrence, or -1
Find(letter) ==
    IF InAllLetters(letter)
    THEN (CHOOSE k \in 1..Len(all_letters) :
              /\ all_letters[k] = letter
              /\ \A m \in 1..(k - 1) : all_letters[m] # letter) - 1
    ELSE -1

\* all_letters[topi]
LetterAt(topi) == all_letters[topi + 1]

----------------------------------------------------------------------------
\* unicodedata, on the characters the checked strings are made of:
\* U+00E9 e-acute, U+00E0 a-grave, U+00F1 n-tilde, U+00C9 E-acute decompose
\* into base letter + combining mark; every other character is unchanged.
Decomposition(c) ==
    CASE c = 233 -> <<101, 769>>
      [] c = 224 -> <<97, 768>>
      [] c = 241 -> <<110, 771>>
      [] c = 201 -> <<69, 769>>
      [] OTHER -> <<c>>

\* unicodedata.normalize('NFD', s)
RECURSIVE NFD(_)
NFD(s) == IF s = <<>> THEN <<>> ELSE Decomposition(Head(s)) \o NFD(Tail(s))

\* unicodedata.category(c) == 'Mn': the block Combining Diacritical Marks
IsMn(c) == c \in 768..879

\* ''.join(c for c in ... if ... and ...)
RECURSIVE JoinKept(_)
JoinKept(s) ==
    IF s = <<>> THEN <<>>
    ELSE (IF ~IsMn(Head(s)) /\ InAllLetters(Head(s)) THEN <<Head(s)>> ELSE <<>>)
             \o JoinKept(Tail(s))

\* Variant: the string is filtered without being normalized first.
unicodeToAscii_NoNFD(s) == JoinKept(s)

unicodeToAscii(s) == JoinKept(NFD(s))

----------------------------------------------------------------------------
\* Reading the data files.

IsSpace(c) == c \in {32, 9, 10, 11, 12, 13}

RECURSIVE LStrip(_)
LStrip(s) == IF s # <<>> /\ IsSpace(Head(s)) THEN LStrip(Tail(s)) ELSE s

RECURSIVE RStrip(_)
RStrip(s) ==
    IF s # <<>> /\ IsSpace(s[Len(s)]) THEN RStrip(SubSeq(s, 1, Len(s) - 1)) ELSE s

\* str.strip()
Strip(s) == RStrip(LStrip(s))

\* str.split('\n'): the pieces between newlines, at least one piece
RECURSIVE Split(_)
Split(s) ==
    IF \E k \in 1..Len(s) : s[k] = 10
    THEN LET k == CHOOSE k \in 1..Len(s) :
                      s[k] = 10 /\ \A m \in 1..(k - 1) : s[m] # 10
         IN  <<SubSeq(s, 1, k - 1)>> \o Split(SubSeq(s, k + 1, Len(s)))
    ELSE <<s>>

\* readLines(filename), given the text of the file
readLines(text) ==
    LET lines == Split(Strip(text))
    IN  [k \in 1..Len(lines) |-> unicodeToAscii(lines[k])]

\* os.path.splitext(os.path.basename(filename))[0]
Stem(filename) == filename[1]

\* glob.glob('data/names/*.txt'): the matching names, in any order
Matched(d) == {f \in DOMAIN d : f[2] = ".txt"}
Orderings(S) ==
    {q \in [1..Cardinality(S) -> S] : \A a, b \in DOMAIN q : q[a] = q[b] => a = b}
findFiles(d) == Orderings(Matched(d))

----------------------------------------------------------------------------
\* The tensor helpers.

\* list.index(x): 0-based position of the first occurrence
IndexOf(l, x) ==
    (CHOOSE k \in 1..Len(l) : l[k] = x /\ \A m \in 1..(k - 1) : l[m] # x) - 1

\* Variant: the 1 is always written at position 0.
categoryTensor_First(category) == SetOne(Zeros(n_categories), 0, n_categories)

categoryTensor(category) ==
    LET li == IndexOf(all_categories, category)
    IN  SetOne(Zeros(n_categories), li, n_categories)

\* Variant: the 1 of each row is written one position too far.
inputTensor_Shifted(line) ==
    [li \in 1..Len(line) |->
        SetOne(Zeros(n_letters), Find(line[li]) + 1, n_letters)]

inputTensor(line) ==
    [li \in 1..Len(line) |->
        SetOne(Zeros(n_letters), Find(line[li]), n_letters)]

\* Variant: the targets start at the first letter instead of the second.
targetTensor_FromFirst(line) ==
    LET letter_indexes == [li \in 1..(Len(line) - 1) |-> Find(line[li])]
    IN  letter_indexes \o <<n_letters - 1>>

targetTensor(line) ==
    LET letter_indexes == [li \in 1..(Len(line) - 1) |-> Find(line[li + 1])]
    IN  letter_indexes \o <<n_letters - 1>>

----------------------------------------------------------------------------
\* Inputs of the checked instances.

Unbound == "unbound"        \* a name the notebook has not assigned yet

\* data/names may hold these files, each with one of these texts:
\* "", "Abe\nBo\n", "e'\n\nb" (accent, blank line), " a-b \n".
FileNames ==
    {<<"Irish", ".txt">>, <<"Czech", ".txt">>, <<"Greek", ".txt">>,
     <<"README", ".md">>}
FileTexts ==
    {<<>>, <<65, 98, 101, 10, 66, 111, 10>>, <<233, 10, 10, 98>>,
     <<32, 97, 45, 98, 32, 10>>}
Dirs == UNION {[S -> FileTexts] : S \in SUBSET FileNames}

\* The data directory of the runs that start after loading.
DataDir ==
    (<<"Irish", ".txt">> :> <<65, 98, 101, 10, 66, 111, 10>>)
    @@ (<<"Czech", ".txt">> :> <<233, 10, 10, 98>>)
    @@ (<<"README", ".md">> :> <<>>)

DataDir3 == DataDir @@ (<<"Greek", ".txt">> :> <<32, 97, 45, 98, 32, 10>>)

\* The data directories of a run of the notebook from its start: no file, no
\* file that matches *.txt, and one matching file with the lines "B", "" and
\* "l".
RunDirs ==
    {[f \in {} |-> <<>>],
     (<<"README", ".md">> :> <<66, 10>>),
     (<<"Irish", ".txt">> :> <<66, 10, 10, 108>>) @@ (<<"README", ".md">> :> <<>>)}

\* Lines given to the tensor helpers: a, Z, -, and e-acute (not in all_letters).
LineChars == {97, 90, 45, 233}
Lines == SeqsUpTo(LineChars, MaxLineLen)

\* Strings given to unicodeToAscii: O ' e-acute a-grave combining-acute
\* l-stroke (no decomposition) digit-1, and the notebook's own example.
StrChars == {79, 39, 233, 224, 769, 322, 49}
ONeal == <<79, 39, 78, 233, 224, 108>>
Strings == SeqsUpTo(StrChars, MaxStrLen) \cup {ONeal}

----------------------------------------------------------------------------
\* Cell 2: building category_lines.

\* category_lines[category] = lines
DictSet(d, k, v) == [x \in (DOMAIN d) \cup {k} |-> IF x = k THEN v ELSE d[x]]

EmptyDict == [x \in {} |-> <<>>]

LoadBegin ==
    /\ pc = "cell2"
    /\ category_lines' = EmptyDict
    /\ all_categories' = <<>>
    /\ files' \in findFiles(dir)
    /\ pc' = "load_loop"
    /\ UNCHANGED <<dir, n_categories, fnVars, sampleVars, runVars, trainVars, loopVars>>

\* Variant: the dictionary is rebuilt from the current file alone.
LoadFile_Forgets ==
    /\ pc = "load_loop"
    /\ files # <<>>
    /\ LET filename == Head(files)
           category == Stem(filename)
           lines == readLines(dir[filename])
       IN  /\ all_categories' = Append(all_categories, category)
           /\ category_lines' = DictSet(EmptyDict, category, lines)
    /\ files' = Tail(files)
    /\ UNCHANGED <<dir, n_categories, pc, fnVars, sampleVars, runVars, trainVars, loopVars>>

LoadFile ==
    /\ pc = "load_loop"
    /\ files # <<>>
    /\ LET filename == Head(files)
           category == Stem(filename)
           lines == readLines(dir[filename])
       IN  /\ all_categories' = Append(all_categories, category)
           /\ category_lines' = DictSet(category_lines, category, lines)
    /\ files' = Tail(files)
    /\ UNCHANGED <<dir, n_categories, pc, fnVars, sampleVars, runVars, trainVars, loopVars>>

\* Variant: the cell ends without looking at n_categories.
LoadEnd_NoRaise ==
    /\ pc = "load_loop"
    /\ files = <<>>
    /\ n_categories' = Len(all_categories)
    /\ pc' = "loaded"
    /\ UNCHANGED <<dir, files, all_categories, category_lines, fnVars, sampleVars,
                   runVars, trainVars, loopVars>>

LoadEnd ==
    /\ pc = "load_loop"
    /\ files = <<>>
    /\ n_categories' = Len(all_categories)
    /\ pc' = IF n_categories' = 0 THEN "RuntimeError" ELSE "loaded"
    /\ UNCHANGED <<dir, files, all_categories, category_lines, fnVars, sampleVars,
                   runVars, trainVars, loopVars>>

----------------------------------------------------------------------------
\* The helpers applied to one argument each.

CallUnicodeToAscii ==
    /\ fn = "none"
    /\ \E s \in Strings :
          /\ arg' = s
          /\ result' = unicodeToAscii(s)
    /\ fn' = "unicodeToAscii"
    /\ UNCHANGED <<dataVars, pc, sampleVars, runVars, trainVars, loopVars>>

CallCategoryTensor ==
    /\ fn = "none"
    /\ \E k \in 1..Len(all_categories) :
          /\ arg' = all_categories[k]
          /\ result' = categoryTensor(all_categories[k])
    /\ fn' = "categoryTensor"
    /\ UNCHANGED <<dataVars, pc, sampleVars, runVars, trainVars, loopVars>>

CallInputTensor ==
    /\ fn = "none"
    /\ \E line \in Lines :
          /\ arg' = line
          /\ result' = inputTensor(line)
    /\ fn' = "inputTensor"
    /\ UNCHANGED <<dataVars, pc, sampleVars, runVars, trainVars, loopVars>>

CallTargetTensor ==
    /\ fn = "none"
    /\ \E line \in Lines :
          /\ arg' = line
          /\ result' = targetTensor(line)
    /\ fn' = "targetTensor"
    /\ UNCHANGED <<dataVars, pc, sampleVars, runVars, trainVars, loopVars>>

----------------------------------------------------------------------------
\* The network (class RNN) and the loss.

\* rnn = RNN(n_letters, 128, n_letters)
hidden_size == 128

\* rnn.parameters(), in registration order
ParamNames ==
    <<"i2h.weight", "i2h.bias", "i2o.weight", "i2o.bias", "o2o.weight", "o2o.bias">>
ParamSet == {ParamNames[k] : k \in 1..Len(ParamNames)}

\* The parameter values of a freshly built network, in units of 1/10000.
InitParams == [p \in ParamSet |-> 0]

\* RNN.initHidden(): torch.zeros(1, hidden_size).  A hidden state is the zero
\* tensor it started from and the chain of i2h applications made to it.
initHidden == [base |-> Zeros(hidden_size), chain |-> <<>>]

\* hidden = self.i2h(torch.cat((category, input, hidden), 1)): a function of
\* the i2h parameters and of the three tensors, kept as a term.
I2H(category, inp, hid) ==
    [base |-> hid.base,
     chain |-> Append(hid.chain,
                      [weight |-> params["i2h.weight"], bias |-> params["i2h.bias"],
                       category |-> category, input |-> inp])]

\* A network output: log-probabilities with a highest entry at index p, an
\* entry at q that is equal to it (r = -1) or lower (r = -2), the rest lower.
OutVec(p, q, r) ==
    <<[j \in 0..(n_letters - 1) |-> IF j = p THEN -1 ELSE IF j = q THEN r ELSE -3]>>

\* The outputs of the checked network: a highest entry at a, at - or at EOS,
\* two equal highest entries at a and EOS, or a highest at - with a next.
NetIdx == {0, 57, n_letters - 1}
Outputs ==
    {OutVec(p, p, -1) : p \in NetIdx}
        \cup {OutVec(0, n_letters - 1, -1), OutVec(57, 0, -2)}
LateOutputs == {OutVec(p, p, -1) : p \in {0, n_letters - 1}}

\* The outputs step k (0-based) of a run may produce: dropout makes the output
\* random, so any of them; after MaxFreeSteps steps only a or EOS.
NetOutputs(k) == IF k < MaxFreeSteps THEN Outputs ELSE LateOutputs

\* RNN.forward(category, input, hidden): the possible (output, hidden) pairs
forward(category, inp, hid, k) ==
    {<<o, I2H(category, inp, hid)>> : o \in NetOutputs(k)}

\* Variant: an index of a lowest entry.
TopK_Lowest(out) ==
    {j \in 0..(n_letters - 1) : \A m \in 0..(n_letters - 1) : out[1][m] >= out[1][j]}

\* output.topk(1)[1][0][0]: an index of a highest entry
TopK(out) ==
    {j \in 0..(n_letters - 1) : \A m \in 0..(n_letters - 1) : out[1][m] <= out[1][j]}

----------------------------------------------------------------------------
\* sample(category, start_letter)

max_length == 20

StartLetters == {<<65>>, <<45>>}

SampleCall ==
    /\ pc = "loaded"
    /\ fn = "none"
    /\ \E k \in 1..Len(all_categories), start_letter \in StartLetters :
          /\ arg' = <<all_categories[k], start_letter>>
          /\ category_tensor' = categoryTensor(all_categories[k])
          /\ input' = inputTensor(start_letter)
          /\ output_name' = start_letter
    /\ hidden' = initHidden
    /\ i' = 0
    /\ calls' = <<>>
    /\ fn' = "sample"
    /\ pc' = "sample_loop"
    /\ UNCHANGED <<dataVars, result, params, output, trainVars, loopVars>>

\* One iteration of "for i in range(limit)"; on EOS the loop is left when
\* breaks is TRUE.
SampleIteration(limit, breaks) ==
    /\ pc = "sample_loop"
    /\ i < limit
    /\ \E r \in forward(category_tensor, input[1], hidden, i) :
       \E topi \in TopK(r[1]) :
          /\ output' = r[1]
          /\ hidden' = r[2]
          /\ calls' = Append(calls, [category |-> category_tensor, input |-> input[1],
                                     hidden |-> hidden, output |-> r[1],
                                     hidden_out |-> r[2], topi |-> topi])
          /\ IF topi = n_letters - 1
             THEN /\ pc' = IF breaks THEN "sample_return" ELSE pc
                  /\ i' = IF breaks THEN i ELSE i + 1
                  /\ UNCHANGED <<output_name, input>>
             ELSE /\ output_name' = output_name \o <<LetterAt(topi)>>
                  /\ input' = inputTensor(<<LetterAt(topi)>>)
                  /\ i' = i + 1
                  /\ pc' = pc
    /\ UNCHANGED <<dataVars, fnVars, params, category_tensor, trainVars, loopVars>>

\* Variant: the loop runs one iteration too many.
SampleStep_OneMore == SampleIteration(max_length + 1, TRUE)

\* Variant: an EOS prediction is skipped instead of ending the loop.
SampleStep_NoBreak == SampleIteration(max_length, FALSE)

SampleStep == SampleIteration(max_length, TRUE)

SampleReturn ==
    /\ \/ pc = "sample_return"
       \/ pc = "sample_loop" /\ i = max_length
    /\ result' = output_name
    /\ pc' = "sampled"
    /\ UNCHANGED <<dataVars, fn, arg, sampleVars, runVars, trainVars, loopVars>>

----------------------------------------------------------------------------
\* train(category_tensor, input_line_tensor, target_line_tensor)

\* learning_rate = 0.0005
learning_rate == [num |-> 5, den |-> 10000]

\* tensor.add_(alpha, other) on a value counted in units of 1/alpha.den
AddScaled(value, alpha, other) == value + alpha.num * other
Neg(alpha) == [num |-> -alpha.num, den |-> alpha.den]

\* p.grad of a network on which backward has not run, or after zero_grad()
ZeroGrads == [q \in ParamSet |-> 0]

\* The gradients loss.backward() may add to p.grad (computed by autograd).
GradVecs ==
    {[q \in ParamSet |-> -2],
     [q \in ParamSet |-> CHOOSE k \in 1..Len(ParamNames) : ParamNames[k] = q]}

\* criterion = nn.NLLLoss(), on a 1 x n_letters output and a 1-element target
NLLLoss(out, target) == -out[1][target[1]]

\* target_line_tensor.unsqueeze_(-1)
Unsqueeze(t) == [k \in 1..Len(t) |-> <<t[k]>>]

\* randomChoice(l): any element of the list
randomChoice(l) == {l[k] : k \in 1..Len(l)}

\* randomTrainingPair(): a random category and a random line of it
randomTrainingPair ==
    UNION {{<<category, line>> : line \in randomChoice(category_lines[category])} :
              category \in randomChoice(all_categories)}

\* An entry of the history of a call of train, with the parameters after it.
Event(ev, n, ps) == [ev |-> ev, n |-> n, params |-> ps]

\* Lines 361-366, on the tensors of randomTrainingExample(), called at
\* position at while fewer than limit calls have been made; zeroes says
\* whether rnn.zero_grad() is run.
TrainFrom(at, limit, zeroes) ==
    /\ pc = at
    /\ iter < limit
    /\ \E pair \in randomTrainingPair :
          /\ arg' = pair
          /\ category_tensor' = categoryTensor(pair[1])
          /\ input_line_tensor' = inputTensor(pair[2])
          /\ target_line_tensor' = Unsqueeze(targetTensor(pair[2]))
    /\ hidden' = initHidden
    /\ grads' = IF zeroes THEN ZeroGrads ELSE grads
    /\ loss' = [tensor |-> FALSE, value |-> 0]
    /\ i' = 0
    /\ p_i' = 0
    /\ calls' = <<>>
    /\ events' = <<Event("zero_grad", 0, params)>>
    /\ iter' = iter + 1
    /\ fn' = "train"
    /\ pc' = "train_loop"
    /\ UNCHANGED <<dataVars, result, params, output, sampleVars, loopVars>>

\* A call of train made outside the training loop.
TrainEntry(zeroes) == TrainFrom("loaded", MaxIters, zeroes)

\* Variant: the gradients of the previous call are not cleared.
TrainCall_NoZeroGrad == TrainEntry(FALSE)

TrainCall == TrainEntry(TRUE)

\* One iteration of "for i in range(input_line_tensor.size(0))"; the step is
\* scored against target entry i + shift.
TrainIteration(shift) ==
    /\ pc = "train_loop"
    /\ i < Len(input_line_tensor)
    /\ \E r \in forward(category_tensor, input_line_tensor[i + 1], hidden, i) :
          LET target == target_line_tensor[((i + shift) % Len(target_line_tensor)) + 1]
              l == NLLLoss(r[1], target)
          IN  /\ output' = r[1]
              /\ hidden' = r[2]
              /\ loss' = [tensor |-> TRUE, value |-> loss.value + l]
              /\ calls' = Append(calls,
                                 [category |-> category_tensor,
                                  input |-> input_line_tensor[i + 1],
                                  hidden |-> hidden, output |-> r[1],
                                  hidden_out |-> r[2], target |-> target, l |-> l])
    /\ events' = Append(events, Event("loss", i, params))
    /\ i' = i + 1
    /\ UNCHANGED <<dataVars, fnVars, pc, params, category_tensor, sampleVars,
                   input_line_tensor, target_line_tensor, grads, p_i, iter, loopVars>>

\* Variant: step i is scored against the target of the step after it.
TrainStep_NextTarget == TrainIteration(1)

TrainStep == TrainIteration(0)

\* loss.backward(): loss is still the int 0 when the loop ran no step, and
\* an int has no backward.
TrainBackward ==
    /\ pc = "train_loop"
    /\ i = Len(input_line_tensor)
    /\ IF loss.tensor
       THEN /\ \E g \in GradVecs : grads' = [q \in ParamSet |-> grads[q] + g[q]]
            /\ events' = Append(events, Event("backward", loss.value, params))
            /\ p_i' = 1
            /\ pc' = "train_update"
       ELSE /\ pc' = "AttributeError"
            /\ UNCHANGED <<grads, events, p_i>>
    /\ UNCHANGED <<dataVars, fnVars, sampleVars, runVars,
                   input_line_tensor, target_line_tensor, loss, iter, loopVars>>

\* One iteration of "for p in rnn.parameters()"
TrainUpdate ==
    /\ pc = "train_update"
    /\ p_i <= Len(ParamNames)
    /\ params' = [params EXCEPT ![ParamNames[p_i]] =
                      AddScaled(@, Neg(learning_rate), grads[ParamNames[p_i]])]
    /\ events' = Append(events, Event("update", p_i, params'))
    /\ p_i' = p_i + 1
    /\ UNCHANGED <<dataVars, fnVars, pc, sampleVars, category_tensor, hidden, output,
                   i, calls, input_line_tensor, target_line_tensor, loss, grads, iter, loopVars>>

\* return output, loss.item() / input_line_tensor.size(0); the locals and the
\* history of the call end with it; the caller goes on at position to.
TrainReturnTo(to) ==
    /\ pc = "train_update"
    /\ p_i > Len(ParamNames)
    /\ result' = <<output, [num |-> loss.value, den |-> Len(input_line_tensor)]>>
    /\ arg' = <<>>
    /\ category_tensor' = Unbound
    /\ hidden' = Unbound
    /\ i' = Unbound
    /\ loss' = Unbound
    /\ p_i' = Unbound
    /\ input_line_tensor' = Unbound
    /\ target_line_tensor' = Unbound
    /\ calls' = <<>>
    /\ events' = <<>>
    /\ pc' = to
    /\ UNCHANGED <<dataVars, fn, params, output, sampleVars, grads, iter, loopVars>>

TrainReturn == TrainReturnTo("loaded")

----------------------------------------------------------------------------
\* The training cell: the network, the loop constants and the loop.

\* n_iters, print_every, plot_every: the loop of the checked instances is
\* LoopIters iterations long, not 100000, with periods scaled alike.
n_iters == LoopIters
print_every == PrintPeriod
plot_every == PlotPeriod

\* Losses are fractions; total_loss = 0
Zero == [num |-> 0, den |-> 1]
RatAdd(a, b) == [num |-> a.num * b.den + b.num * a.den, den |-> a.den * b.den]
RatDiv(a, n) == [num |-> a.num, den |-> a.den * n]
RatEq(a, b) == a.num * b.den = b.num * a.den

\* '%d' % (iter / n_iters * 100): the fraction is cut off
Percent(it) == (it * 100) \div n_iters

\* '%.4f' % loss: the loss rounded to a multiple of 1/10000, in that unit
Fmt4(l) == (2 * 10000 * l.num + l.den) \div (2 * l.den)

\* rnn = RNN(n_letters, 128, n_letters); all_losses = []; total_loss = 0
BuildNet ==
    /\ pc = "loaded"
    /\ params' = InitParams
    /\ all_losses' = <<>>
    /\ total_loss' = Zero
    /\ pc' = "loop_head"
    /\ UNCHANGED <<dataVars, fnVars, sampleVars, category_tensor, hidden, output, i,
                   calls, trainVars, printed, losses>>

\* for iter in range(1, n_iters + 1): train(*randomTrainingExample())
LoopCall == TrainFrom("loop_head", n_iters, TRUE)

LoopReturn == TrainReturnTo("loop_tail")

\* The rest of the loop body, lines 465-472: a line is printed every period
\* iterations; resets says whether total_loss is set back to 0.
LoopBody(period, resets) ==
    /\ pc = "loop_tail"
    /\ LET l == result[2]
           total == RatAdd(total_loss, l)
       IN  /\ losses' = Append(losses, l)
           /\ printed' =
                 IF iter % period = 0
                 THEN Append(printed, [iter |-> iter, percent |-> Percent(iter),
                                       loss |-> Fmt4(l)])
                 ELSE printed
           /\ IF iter % plot_every = 0
              THEN /\ all_losses' = Append(all_losses, RatDiv(total, plot_every))
                   /\ total_loss' = IF resets THEN Zero ELSE total
              ELSE /\ total_loss' = total
                   /\ UNCHANGED all_losses
    /\ pc' = "loop_head"
    /\ UNCHANGED <<dataVars, fnVars, sampleVars, runVars, trainVars>>

\* Variant: total_loss keeps growing after an average is stored.
LoopTail_NoReset == LoopBody(print_every, FALSE)

\* Variant: the progress line is printed whenever an average is stored.
LoopTail_PrintsAtPlot == LoopBody(plot_every, TRUE)

LoopTail == LoopBody(print_every, TRUE)

\* range(1, n_iters + 1) is exhausted
LoopEnd ==
    /\ pc = "loop_head"
    /\ iter = n_iters
    /\ pc' = "trained"
    /\ UNCHANGED <<dataVars, fnVars, sampleVars, runVars, trainVars, loopVars>>

----------------------------------------------------------------------------
\* Initial states and specifications.

\* No function has been called yet.
NothingCalled ==
    /\ fn = "none"
    /\ arg = <<>>
    /\ result = <<>>
    /\ category_tensor = Unbound
    /\ input = Unbound
    /\ hidden = Unbound
    /\ output = Unbound
    /\ output_name = Unbound
    /\ i = Unbound
    /\ calls = <<>>
    /\ input_line_tensor = Unbound
    /\ target_line_tensor = Unbound
    /\ loss = Unbound
    /\ grads = ZeroGrads
    /\ p_i = Unbound
    /\ events = <<>>
    /\ iter = 0
    /\ all_losses = Unbound
    /\ total_loss = Unbound
    /\ printed = <<>>
    /\ losses = <<>>

\* The state after cell 2 has run on directory d with glob order q.
LoadedAs(d, q) ==
    /\ dir = d
    /\ all_categories = [k \in 1..Len(q) |-> Stem(q[k])]
    /\ category_lines =
          [c \in {Stem(f) : f \in Matched(d)} |-> readLines(d[<<c, ".txt">>])]
    /\ n_categories = Len(q)
    /\ files = <<>>
    /\ pc = "loaded"

\* The state after cell 2 has run on directory d, for some glob order.
Loaded(d) == \E q \in findFiles(d) : LoadedAs(d, q)

InitLoad ==
    /\ dir \in Dirs
    /\ files = <<>>
    /\ all_categories = Unbound
    /\ category_lines = Unbound
    /\ n_categories = Unbound
    /\ pc = "cell2"
    /\ NothingCalled
    /\ params = Unbound

NextLoad == LoadBegin \/ LoadFile \/ LoadEnd

\* Cell 2 run on any of the directories.
SpecLoad == InitLoad /\ [][NextLoad]_vars

InitFn ==
    /\ \E d \in {DataDir, DataDir3} : Loaded(d)
    /\ NothingCalled
    /\ params = Unbound

NextFn ==
    \/ CallUnicodeToAscii
    \/ CallCategoryTensor
    \/ CallInputTensor
    \/ CallTargetTensor

\* One helper applied to one argument, after loading.
SpecFn == InitFn /\ [][NextFn]_vars

InitSample ==
    /\ LoadedAs(DataDir, <<(<<"Irish", ".txt">>), (<<"Czech", ".txt">>)>>)
    /\ NothingCalled
    /\ params = InitParams

NextSample == SampleCall \/ SampleStep \/ SampleReturn

\* One call of sample, on a built network.
SpecSample == InitSample /\ [][NextSample]_vars

InitTrain ==
    /\ Loaded(DataDir)
    /\ NothingCalled
    /\ params = InitParams

NextTrain == TrainCall \/ TrainStep \/ TrainBackward \/ TrainUpdate \/ TrainReturn

\* Up to MaxIters calls of train, on a built network.
SpecTrain == InitTrain /\ [][NextTrain]_vars

InitRun ==
    /\ dir \in RunDirs
    /\ files = <<>>
    /\ all_categories = Unbound
    /\ category_lines = Unbound
    /\ n_categories = Unbound
    /\ pc = "cell2"
    /\ NothingCalled
    /\ params = Unbound

NextRun ==
    \/ LoadBegin
    \/ LoadFile
    \/ LoadEnd
    \/ BuildNet
    \/ LoopCall
    \/ TrainStep
    \/ TrainBackward
    \/ TrainUpdate
    \/ LoopReturn
    \/ LoopTail
    \/ LoopEnd

\* The notebook run from its start: the loading cell, then the training cell.
SpecRun == InitRun /\ [][NextRun]_vars

----------------------------------------------------------------------------
\* Properties of the helpers.

\* v is a vector on 0..n-1 whose only non-zero entry is a 1 at idx
OneHotAt(v, n, idx) ==
    /\ DOMAIN v = 0..(n - 1)
    /\ \A j \in 0..(n - 1) : v[j] = IF j = idx THEN 1 ELSE 0

OverAllLetters(s) == \A k \in 1..Len(s) : InAllLetters(s[k])

\* C4: for a line of length n >= 1 over all_letters, targetTensor(line) has n
\* entries, entry i (0 <= i < n-1) is the all_letters index of line[i+1] and
\* the last entry is the EOS index n_letters - 1; paired with the rows of
\* inputTensor(line) these are the consecutive letter pairs, then (last, EOS).
C4_TargetTensorPairs ==
    (fn = "targetTensor" /\ Len(arg) >= 1 /\ OverAllLetters(arg)) =>
        /\ Len(result) = Len(arg)
        /\ \A t \in 0..(Len(arg) - 2) :
              /\ result[t + 1] \in 0..(Len(all_letters) - 1)
              /\ all_letters[result[t + 1] + 1] = arg[t + 2]
        /\ result[Len(arg)] = n_letters - 1
        /\ \A t \in 0..(Len(arg) - 1) :
              /\ \E a \in 0..(Len(all_letters) - 1) :
                    /\ all_letters[a + 1] = arg[t + 1]
                    /\ OneHotAt(inputTensor(arg)[t + 1][1], n_letters, a)
              /\ t < Len(arg) - 1 => all_letters[result[t + 1] + 1] = arg[t + 2]
              /\ t = Len(arg) - 1 => result[t + 1] = n_letters - 1

C4_Witness ==
    /\ fn = "targetTensor"
    /\ arg = <<90, 97, 45>>
    /\ result = <<0, 57, 58>>

C6_CategoryTensorOneHot ==
    fn = "categoryTensor" =>
        /\ Len(result) = 1
        /\ \E k \in 1..Len(all_categories) :
              /\ all_categories[k] = arg
              /\ OneHotAt(result[1], n_categories, k - 1)
        /\ \A k \in 1..Len(all_categories) :
              all_categories[k] # arg => categoryTensor(all_categories[k]) # result

C6_Witness ==
    /\ fn = "categoryTensor"
    /\ Len(all_categories) = 3
    /\ arg = all_categories[3]
    /\ result[1][2] = 1

\* What one character of s contributes to unicodeToAscii(s): itself when it
\* is in all_letters, its base letter when it is an accented letter whose
\* base is in all_letters, nothing otherwise.
Contribution(c) ==
    IF InAllLetters(c) THEN <<c>>
    ELSE IF Len(Decomposition(c)) > 1 /\ InAllLetters(Decomposition(c)[1])
         THEN <<Decomposition(c)[1]>>
         ELSE <<>>

RECURSIVE Contributions(_)
Contributions(s) ==
    IF s = <<>> THEN <<>> ELSE Contribution(Head(s)) \o Contributions(Tail(s))

\* C9: unicodeToAscii(s) contains only characters of all_letters; accented
\* letters are replaced by their base letter, characters outside all_letters
\* are removed, the others keep their order; "O'Neal" for the accented O'Neal.
C9_UnicodeToAscii ==
    fn = "unicodeToAscii" =>
        /\ OverAllLetters(result)
        /\ result = Contributions(arg)
        /\ arg = ONeal => result = <<79, 39, 78, 101, 97, 108>>

C9_Witness ==
    /\ fn = "unicodeToAscii"
    /\ arg = <<233, 322, 39>>
    /\ result = <<101, 39>>

----------------------------------------------------------------------------
\* Properties of the loaded data.

\* C10: after data loading category_lines has exactly one key per matched
\* data file: its keys are the entries of all_categories, all_categories has
\* no duplicates, n_categories is the number of keys, and the value of each
\* key is the list of the lines read from that file, each after
\* unicodeToAscii, in file order.
C10_CategoryLinesDict ==
    pc \in {"loaded", "RuntimeError"} =>
        /\ DOMAIN category_lines = {all_categories[k] : k \in 1..Len(all_categories)}
        /\ \A a, b \in 1..Len(all_categories) :
              all_categories[a] = all_categories[b] => a = b
        /\ n_categories = Cardinality(DOMAIN category_lines)
        /\ Cardinality(DOMAIN category_lines) = Cardinality(Matched(dir))
        /\ \A f \in Matched(dir) :
              /\ f[1] \in DOMAIN category_lines
              /\ LET text == Split(Strip(dir[f]))
                     value == category_lines[f[1]]
                 IN  /\ Len(value) = Len(text)
                     /\ \A k \in 1..Len(text) : value[k] = unicodeToAscii(text[k])

C10_Witness ==
    /\ pc = "loaded"
    /\ n_categories = 3
    /\ all_categories[1] = "Greek"
    /\ category_lines["Czech"] = <<<<101>>, <<>>, <<98>>>>
    /\ category_lines["Greek"] = <<<<97, 45, 98>>>>
    /\ <<"README", ".md">> \in DOMAIN dir

----------------------------------------------------------------------------
\* Properties of sample.

InSample == fn = "sample"
EOS == n_letters - 1

\* The letters predicted by the first n calls, EOS predictions left out.
RECURSIVE PredictedLetters(_)
PredictedLetters(n) ==
    IF n = 0 THEN <<>>
    ELSE PredictedLetters(n - 1)
             \o (IF calls[n].topi = EOS THEN <<>> ELSE <<all_letters[calls[n].topi + 1]>>)

\* C1: sample terminates after at most max_length network steps (it is never
\* stuck before it returns, and every step is one more of at most max_length
\* calls of the network), and the returned name has at least 1 and at most
\* 1 + max_length characters: the start letter plus at most one per step.
C1_SampleBounded ==
    InSample =>
        /\ Len(calls) <= max_length
        /\ 1 <= Len(output_name)
        /\ Len(output_name) <= 1 + Len(calls)
        /\ pc # "sampled" => ENABLED (SampleStep \/ SampleReturn)
        /\ (pc = "sample_loop" /\ Len(calls) = max_length) => ~ENABLED SampleStep
        /\ pc = "sampled" =>
              /\ 1 <= Len(result)
              /\ Len(result) <= 1 + max_length
              /\ Len(result) <= 1 + Len(calls)

C1_Witness ==
    /\ InSample
    /\ pc = "sampled"
    /\ Len(calls) = max_length
    /\ Len(result) = 1 + max_length

\* C2: sample stops at the first step that predicts EOS: no network step is
\* run after it, EOS is never appended, and the name is the start letter
\* followed, in order, by the letters predicted before the first EOS
\* prediction, each a character of all_letters.
C2_SampleStopsAtEOS ==
    InSample =>
        /\ \A k \in 1..(Len(calls) - 1) : calls[k].topi # EOS
        /\ (Len(calls) >= 1 /\ calls[Len(calls)].topi = EOS) => pc \in {"sample_return", "sampled"}
        /\ pc = "sample_return" => calls[Len(calls)].topi = EOS
        /\ output_name = arg[2] \o PredictedLetters(Len(calls))
        /\ \A k \in 2..Len(output_name) : InAllLetters(output_name[k])
        /\ pc = "sampled" =>
              /\ result = arg[2] \o PredictedLetters(Len(calls))
              /\ calls # <<>>
              /\ calls[Len(calls)].topi = EOS \/ Len(calls) = max_length
              /\ Len(result) =
                    1 + Cardinality({k \in 1..Len(calls) : calls[k].topi # EOS})

C2_Witness ==
    /\ InSample
    /\ pc = "sampled"
    /\ Len(calls) = 3
    /\ calls[3].topi = EOS
    /\ arg[2] = <<65>>
    /\ result = <<65, 45, 97>>

\* C3: the letter chosen at each step is an index of the highest output of
\* that step; the first step gets the one-hot start letter and the all-zero
\* hidden state, every later step the one-hot chosen letter and the hidden
\* state returned by the step before it.
C3_SampleFeedsBack ==
    InSample =>
        \A k \in 1..Len(calls) :
            /\ \A j \in 0..(n_letters - 1) :
                  calls[k].output[1][j] <= calls[k].output[1][calls[k].topi]
            /\ k = 1 =>
                  /\ OneHotAt(calls[k].input[1], n_letters, Find(arg[2][1]))
                  /\ calls[k].hidden.chain = <<>>
                  /\ DOMAIN calls[k].hidden.base[1] = 0..(hidden_size - 1)
                  /\ \A j \in 0..(hidden_size - 1) : calls[k].hidden.base[1][j] = 0
            /\ k > 1 =>
                  /\ OneHotAt(calls[k].input[1], n_letters, calls[k - 1].topi)
                  /\ calls[k].hidden = calls[k - 1].hidden_out

C3_Witness ==
    /\ InSample
    /\ Len(calls) = 3
    /\ calls[1].output = OutVec(0, EOS, -1)
    /\ calls[1].topi = 0
    /\ calls[2].output = OutVec(57, 0, -2)
    /\ calls[3].input[1][57] = 1
    /\ Len(calls[3].hidden.chain) = 2

----------------------------------------------------------------------------
\* Properties of train.

InTrain == fn = "train" /\ pc \in {"train_loop", "train_update", "AttributeError"}

\* The call of train has run to its return statement, or has raised.
CallEnded ==
    \/ pc = "AttributeError"
    \/ pc = "train_update" /\ p_i > Len(ParamNames)

AllZeroHidden(h) ==
    /\ h.chain = <<>>
    /\ DOMAIN h.base[1] = 0..(hidden_size - 1)
    /\ \A j \in 0..(hidden_size - 1) : h.base[1][j] = 0

\* C7: train runs exactly one network step per letter of the line, in order;
\* step t receives the same category tensor, input row t and the hidden
\* state returned by step t-1 (all zeros for the first step), and its output
\* is scored against target entry t.
C7_TrainStepPerLetter ==
    InTrain =>
        /\ Len(calls) <= Len(arg[2])
        /\ pc = "train_loop" => Len(calls) = i
        /\ pc # "train_loop" => Len(calls) = Len(arg[2])
        /\ \A k \in 1..Len(calls) :
              /\ calls[k].category = categoryTensor(arg[1])
              /\ OneHotAt(calls[k].category[1], n_categories,
                          IndexOf(all_categories, arg[1]))
              /\ OneHotAt(calls[k].input[1], n_letters, Find(arg[2][k]))
              /\ k = 1 => AllZeroHidden(calls[k].hidden)
              /\ k > 1 => calls[k].hidden = calls[k - 1].hidden_out
              /\ calls[k].target =
                    <<IF k < Len(arg[2]) THEN Find(arg[2][k + 1]) ELSE EOS>>
              /\ calls[k].l = -calls[k].output[1][calls[k].target[1]]

C7_Witness ==
    /\ InTrain
    /\ pc = "train_update"
    /\ arg = <<"Irish", <<65, 98, 101>>>>
    /\ Len(calls) = 3
    /\ calls[2].target = <<4>>
    /\ calls[3].target = <<EOS>>
    /\ Len(calls[3].hidden.chain) = 2

RECURSIVE SumOfLosses(_)
SumOfLosses(n) == IF n = 0 THEN 0 ELSE SumOfLosses(n - 1) + calls[n].l

\* The events of the running call so far are, in this order: gradients
\* zeroed, one loss per step added to the sum, backward on the summed loss
\* after the last step, one update per parameter by -learning_rate times its
\* gradient; the parameters are unchanged up to backward.
EventsInOrder ==
    LET n == Len(arg[2])
    IN  /\ events # <<>>
        /\ events[1].ev = "zero_grad"
        /\ \A k \in 2..Len(events) :
              IF k <= n + 1
              THEN /\ events[k].ev = "loss"
                   /\ events[k].n = k - 2
                   /\ events[k].params = events[1].params
              ELSE IF k = n + 2
              THEN /\ events[k].ev = "backward"
                   /\ events[k].n = SumOfLosses(n)
                   /\ Len(calls) = n
                   /\ events[k].params = events[1].params
                   /\ \E g \in GradVecs : grads = g
              ELSE /\ events[k].ev = "update"
                   /\ events[k].n = k - (n + 2)
                   /\ k - (n + 2) <= Len(ParamNames)
                   /\ \A m \in 1..Len(ParamNames) :
                         events[k].params[ParamNames[m]] =
                            IF m <= k - (n + 2)
                            THEN events[1].params[ParamNames[m]]
                                     - learning_rate.num * grads[ParamNames[m]]
                            ELSE events[1].params[ParamNames[m]]
        /\ params = events[Len(events)].params

\* C8 as stated: in every call of train the events are in that order, and a
\* call that has ended has zeroed the gradients, added a loss per step,
\* called backward exactly once and updated every parameter exactly once.
C8_TrainOrderEveryCall ==
    InTrain =>
        /\ EventsInOrder
        /\ CallEnded => Len(events) = 1 + Len(arg[2]) + 1 + Len(ParamNames)

\* C8 for the calls on a line of at least one letter.
C8_TrainOrderNonEmpty ==
    (InTrain /\ Len(arg[2]) >= 1) =>
        /\ EventsInOrder
        /\ CallEnded => Len(events) = 1 + Len(arg[2]) + 1 + Len(ParamNames)

C8_Witness ==
    /\ InTrain
    /\ CallEnded
    /\ iter = 2
    /\ Len(arg[2]) = 2
    /\ events[4].ev = "backward"
    /\ Len(events) = 10
    /\ params["i2h.weight"] = 5

----------------------------------------------------------------------------
\* Properties of a run of the notebook from its start.

\* The loading cell has ended, with the error or without it.
LoadingOver == pc \notin {"cell2", "load_loop"}

\* C11: if no data file matches data/names/*.txt (n_categories = 0), loading
\* raises the RuntimeError, and then no network is built, no training
\* iteration runs and no sample is produced, nor can any of them start; if
\* at least one file matches, the error is not raised.
C11_NoDataRaises ==
    LoadingOver =>
       /\ (n_categories = 0) <=> (Matched(dir) = {})
       /\ (pc = "RuntimeError") <=> (Matched(dir) = {})
       /\ pc = "RuntimeError" =>
              /\ params = Unbound
              /\ all_losses = Unbound
              /\ iter = 0
              /\ losses = <<>>
              /\ calls = <<>>
              /\ output_name = Unbound
              /\ ~ENABLED (NextRun \/ TrainCall \/ SampleCall)

\* Loading has raised the error on a directory that holds a file, but none
\* that matches.
C11_Witness ==
    /\ pc = "RuntimeError"
    /\ DOMAIN dir # {}
    /\ Matched(dir) = {}
    /\ n_categories = 0
    /\ all_categories = <<>>

\* The training cell has assigned all_losses and total_loss.
InLoop == pc \in {"loop_head", "train_loop", "train_update", "loop_tail",
                  "trained", "AttributeError"}

\* The sum of the losses returned in iterations a .. b
RECURSIVE LossSum(_, _)
LossSum(a, b) == IF a > b THEN Zero ELSE RatAdd(LossSum(a, b - 1), losses[b])

\* C12: after iteration k, all_losses has floor(k / plot_every) entries; entry
\* j is the sum of the losses of the plot_every iterations since entry j - 1,
\* divided by plot_every; total_loss is 0 right after an entry is appended
\* and otherwise the sum of the losses since the last reset.
C12_AllLossesAverages ==
    InLoop =>
       LET k == Len(losses)
           stored == k \div plot_every
       IN  /\ k = IF pc \in {"loop_head", "trained"} THEN iter ELSE iter - 1
           /\ Len(all_losses) = stored
           /\ \A j \in 1..stored :
                 RatEq(all_losses[j],
                       RatDiv(LossSum((j - 1) * plot_every + 1, j * plot_every),
                              plot_every))
           /\ RatEq(total_loss, LossSum(stored * plot_every + 1, k))
           /\ (k % plot_every = 0) => total_loss = Zero

\* Two averages that differ have been stored and a loss has been added since.
C12_Witness ==
    /\ pc = "loop_head"
    /\ iter = 2 * plot_every + 1
    /\ Len(all_losses) = 2
    /\ ~RatEq(all_losses[1], all_losses[2])
    /\ total_loss.num > 0
    /\ losses[1] # losses[2]

\* C13: a progress line is printed at iteration k exactly when k is a
\* multiple of print_every, so the lines are in increasing order of k and
\* there are floor(n_iters / print_every) of them when the loop has ended;
\* each shows the loss of its iteration and the percentage k / n_iters * 100
\* (its whole part); with print_every dividing n_iters, as in the notebook,
\* the last line is the one of k = n_iters, showing 100%.
C13_ProgressLines ==
    InLoop =>
       LET k == Len(losses)
       IN  /\ Len(printed) = k \div print_every
           /\ \A j \in 1..Len(printed) :
                 LET line == printed[j]
                 IN  /\ line.iter = j * print_every
                     /\ line.loss = Fmt4(losses[line.iter])
                     /\ line.percent * n_iters <= line.iter * 100
                     /\ line.iter * 100 < (line.percent + 1) * n_iters
           /\ pc = "trained" =>
                 /\ Len(printed) = n_iters \div print_every
                 /\ (n_iters % print_every = 0) =>
                        /\ printed[Len(printed)].iter = n_iters
                        /\ printed[Len(printed)].percent = 100

\* The loop has ended after two progress lines with different losses, the
\* second one at the last iteration.
C13_Witness ==
    /\ pc = "trained"
    /\ Len(printed) = 2
    /\ printed[1].iter = print_every
    /\ printed[2].iter = n_iters
    /\ printed[2].percent = 100
    /\ printed[1].percent < 100
    /\ printed[1].loss # printed[2].loss
    /\ Len(losses) = n_iters
====
